---- MODULE Spec2Model ----
(***************************************************************************)
(* Model of the shopping-list client: the useList hook (items state, the   *)
(* isPerformingOperation flag, its 500 ms release timers and the realtime  *)
(* handler), the ItemsService requests against the items table, and the    *)
(* RealtimeService channel registry.                                       *)
(***************************************************************************)
EXTENDS Integers, Sequences, FiniteSets, TLC

VARIABLES
    rows,                   \* items table; the row with id i is rows[i]
    items,                  \* useList state `items`, per client
    loading,                \* useList state `loading`, per client
    error,                  \* useList state `error` (TRUE when an Error is set)
    isPerformingOperation,  \* useList ref, per client
    timers,                 \* pending setTimeout(..., 500) callbacks, per client
    calls,                  \* service calls awaiting their continuation, per client
    feed,                   \* change events on the way to each client's channel
    listId,                 \* the list id the hook is bound to, per client
    channels,               \* RealtimeService.channels, per client: list -> channel
    opened,                 \* channels open at the supabase client, per client
    nChannels,              \* channels created so far (channel identities)
    loads,                  \* fetchItems calls completed so far, per client (observation only)
    nOps,                   \* operations issued so far
    last                    \* the step just taken (observation only)

vars == <<rows, items, loading, error, isPerformingOperation, timers, calls,
          feed, listId, channels, opened, nChannels, loads, nOps, last>>

----------------------------------------------------------------------------
(* Bounds *)

MaxOps == 2          \* operations started in one behaviour of Spec
SoloOps == 1         \* operations started in one behaviour of SpecSolo
MaxLoads == 2        \* fetchItems calls started in one behaviour of SpecLoad
MaxChannels == 3     \* channels a client creates in one behaviour of SpecRealtime
MaxRows == 3         \* rows of the items table in one behaviour of SpecCancel
MaxEvents == 2       \* events arriving in one behaviour of SpecHandler
MaxDrags == 2        \* operations started in one behaviour of SpecReorder

Clients == {"A", "B"}
Lists == {"L1", "L2"}
Texts == {<<"m", "<">>}      \* texts typed into the add input; a text is a sequence of characters
NewText == <<" ", "t">>      \* the text updateItem writes
MaxTextLen == 500
LongText == [i \in 1..(MaxTextLen + 1) |-> "x"]
\* texts addItem can be called with: good ones, empty, whitespace only, padded, too long
AddTexts == Texts \cup {<<>>, <<" ">>, <<" ", "\t">>, <<" ", "m">>, LongText}
NoUser == "none"
OtherUser == "C"             \* a member of the list whose client is not modelled
NoChannel == 0

----------------------------------------------------------------------------
(* Sequence helpers *)

Range(s) == {s[i] : i \in 1..Len(s)}

RemoveAt(s, i) == SubSeq(s, 1, i - 1) \o SubSeq(s, i + 1, Len(s))

ReplaceAt(s, i, x) == [s EXCEPT ![i] = x]

Ids(its) == {its[i].id : i \in 1..Len(its)}

Perms(S) == {p \in [1..Cardinality(S) -> S] : \A i, j \in 1..Cardinality(S) : i # j => p[i] # p[j]}

----------------------------------------------------------------------------
(* Row -> Item mappings of the hook *)

\* fetchItems: maps every column, provenance included
MapFetched(r) ==
    [id |-> r.id, listId |-> r.list_id, text |-> r.text, isBought |-> r.is_bought,
     orderIndex |-> r.order_index, updatedAt |-> r.updated_at, createdBy |-> r.created_by]

\* addItem: maps the created row, provenance included
MapCreated(r) ==
    [id |-> r.id, listId |-> r.list_id, text |-> r.text, isBought |-> r.is_bought,
     orderIndex |-> r.order_index, updatedAt |-> r.updated_at, createdBy |-> r.created_by]

\* handleRealtimeChange, updateItem, toggleItem: createdBy / createdByName are not mapped
MapChanged(r) ==
    [id |-> r.id, listId |-> r.list_id, text |-> r.text, isBought |-> r.is_bought,
     orderIndex |-> r.order_index, updatedAt |-> r.updated_at, createdBy |-> NoUser]

unboughtItems(its) == SelectSeq(its, LAMBDA it : ~it.isBought)
\* the bought view without its filter
boughtItemsUnfiltered(its) == its
boughtItems(its) == SelectSeq(its, LAMBDA it : it.isBought)

----------------------------------------------------------------------------
(* The items table *)

\* updated_at is the time of the last write as the writing device read it off its own
\* clock (new Date() in ItemsService). The devices of the clients read the number of
\* operations started so far; the rows of the initial table were written at 0, and the
\* device of the other member, which starts no operation, reads OtherClock.
OtherClock == 0

NewRow(i, l, t, idx, by) ==
    [id |-> i, list_id |-> l, text |-> t, is_bought |-> FALSE, is_deleted |-> FALSE,
     order_index |-> idx, updated_at |-> 0, created_by |-> by]

\* rows a listing of list l returns: .eq('list_id', l).eq('is_deleted', false)
Visible(l) == {i \in 1..Len(rows) : rows[i].list_id = l /\ ~rows[i].is_deleted}

\* the orders getListItems may return them in: order_index ascending, ties in any order
Listings(l) ==
    {p \in Perms(Visible(l)) :
        \A i, j \in 1..Cardinality(Visible(l)) :
            i < j => rows[p[i]].order_index <= rows[p[j]].order_index}

\* a change event of the table; by and n record the writer (observation only)
Event(type, r, c, n) == [type |-> type, item |-> r, by |-> c, n |-> n]

\* the feed after one event has been published to every client with a channel on the row's list
Publish(fd, ev) ==
    [c \in Clients |->
        IF channels[c][ev.item.list_id] # NoChannel THEN Append(fd[c], ev) ELSE fd[c]]

----------------------------------------------------------------------------
(* Service calls in flight *)

NoRow == NewRow(0, "L1", <<>>, 0, NoUser)
NoEvent == Event("NONE", NoRow, NoUser, 0)

\* st: "sent" (request on its way), "ok" / "err" (answered, continuation not yet run),
\* "lost" (no answer will ever arrive)
Call(n, op, l, id, text, flag, order, idx) ==
    [n |-> n, op |-> op, list |-> l, id |-> id, text |-> text, flag |-> flag,
     order |-> order, idx |-> idx, st |-> "sent", res |-> NoRow, resList |-> <<>>]

Step(a, c, n, id, ev, applied) ==
    [a |-> a, c |-> c, n |-> n, id |-> id, ev |-> ev, applied |-> applied]

\* the characters String.prototype.trim removes (of those the texts here are made of)
Whitespace == {" ", "\t"}

RECURSIVE TrimStart(_)
TrimStart(t) == IF t # <<>> /\ Head(t) \in Whitespace THEN TrimStart(Tail(t)) ELSE t

RECURSIVE TrimEnd(_)
TrimEnd(t) == IF t # <<>> /\ t[Len(t)] \in Whitespace THEN TrimEnd(SubSeq(t, 1, Len(t) - 1)) ELSE t

Trim(t) == TrimEnd(TrimStart(t))

\* validateItemText: TRUE when it returns, FALSE when it throws
validateItemText(t) == ~(t = <<>> \/ Len(Trim(t)) = 0) /\ ~(Len(t) > MaxTextLen)

\* sanitizeText: trim, remove angle brackets, cut at 500
sanitizeText(t) ==
    LET stripped == SelectSeq(Trim(t), LAMBDA ch : ch \notin {"<", ">"})
    IN  SubSeq(stripped, 1, IF Len(stripped) < MaxTextLen THEN Len(stripped) ELSE MaxTextLen)

\* a step of the store or of a timer: nothing of it is recorded
Quiet == Step("-", "A", 0, 0, NoEvent, FALSE)

----------------------------------------------------------------------------
(* Initial state: the hook is mounted on list L1, its first fetchItems has  *)
(* completed and its channel is subscribed.                                *)

Row(i, l, t, b, d, idx, by) ==
    [id |-> i, list_id |-> l, text |-> t, is_bought |-> b, is_deleted |-> d,
     order_index |-> idx, updated_at |-> 0, created_by |-> by]

InitTables ==
    { << Row(1, "L1", <<"a">>, FALSE, FALSE, 0, "A"), Row(2, "L1", <<"b">>, FALSE, FALSE, 1, "B") >>,
      << Row(1, "L1", <<"a">>, FALSE, FALSE, 0, "A"), Row(2, "L1", <<"b">>, TRUE, FALSE, 1, "B") >> }

\* the clients in M have the list open, the others have no hook mounted
InitWith(M) ==
    /\ rows \in InitTables
    /\ items = [c \in Clients |-> IF c \in M THEN [k \in 1..Len(rows) |-> MapFetched(rows[k])] ELSE <<>>]
    /\ loading = [c \in Clients |-> FALSE]
    /\ error = [c \in Clients |-> FALSE]
    /\ isPerformingOperation = [c \in Clients |-> FALSE]
    /\ timers = [c \in Clients |-> <<>>]
    /\ calls = [c \in Clients |-> <<>>]
    /\ feed = [c \in Clients |-> <<>>]
    /\ listId = [c \in Clients |-> "L1"]
    /\ channels = [c \in Clients |-> [l \in Lists |-> IF c \in M /\ l = "L1" THEN 1 ELSE NoChannel]]
    /\ opened = [c \in Clients |-> IF c \in M THEN {[ch |-> 1, list |-> "L1"]} ELSE {}]
    /\ nChannels = [c \in Clients |-> IF c \in M THEN 1 ELSE 0]
    /\ loads = [c \in Clients |-> <<>>]
    /\ nOps = 0
    /\ last = Step("init", "A", 0, 0, NoEvent, FALSE)

Init == InitWith(Clients)

hookVars == <<items, loading, error, isPerformingOperation, timers>>
registryVars == <<channels, opened, nChannels>>

----------------------------------------------------------------------------
(* useList operations up to their first await *)

Issue(c, call) ==
    /\ nOps' = nOps + 1
    /\ calls' = [calls EXCEPT ![c] = Append(@, call)]

\* addItem, lines 111-123: arms the flag, captures items.length, sends createItem
addItem(c, text) ==
    /\ Issue(c, Call(nOps + 1, "add", listId[c], 0, text, FALSE, <<>>, Len(items[c])))
    /\ isPerformingOperation' = [isPerformingOperation EXCEPT ![c] = TRUE]
    /\ last' = Step("addItem", c, nOps + 1, 0, NoEvent, FALSE)
    /\ UNCHANGED <<rows, items, loading, error, timers, feed, listId, registryVars, loads>>

\* updateItem, lines 158-159: sends the update; the flag is not touched
updateItem(c, itemId, text) ==
    /\ Issue(c, Call(nOps + 1, "update", listId[c], itemId, text, FALSE, <<>>, 0))
    /\ last' = Step("updateItem", c, nOps + 1, itemId, NoEvent, FALSE)
    /\ UNCHANGED <<rows, hookVars, feed, listId, registryVars, loads>>

\* toggleItem patching items before the request is sent
toggleItemOptimistic(c, itemId, isBought) ==
    /\ Issue(c, Call(nOps + 1, "toggle", listId[c], itemId, <<>>, isBought, <<>>, 0))
    /\ isPerformingOperation' = [isPerformingOperation EXCEPT ![c] = TRUE]
    /\ items' = [items EXCEPT ![c] =
                    [k \in 1..Len(@) |-> IF @[k].id = itemId THEN [@[k] EXCEPT !.isBought = isBought] ELSE @[k]]]
    /\ last' = Step("toggleItem", c, nOps + 1, itemId, NoEvent, FALSE)
    /\ UNCHANGED <<rows, loading, error, timers, feed, listId, registryVars, loads>>

\* toggleItem, lines 186-189
toggleItem(c, itemId, isBought) ==
    /\ Issue(c, Call(nOps + 1, "toggle", listId[c], itemId, <<>>, isBought, <<>>, 0))
    /\ isPerformingOperation' = [isPerformingOperation EXCEPT ![c] = TRUE]
    /\ last' = Step("toggleItem", c, nOps + 1, itemId, NoEvent, FALSE)
    /\ UNCHANGED <<rows, items, loading, error, timers, feed, listId, registryVars, loads>>

\* deleteItem, lines 221-224
deleteItem(c, itemId) ==
    /\ Issue(c, Call(nOps + 1, "delete", listId[c], itemId, <<>>, FALSE, <<>>, 0))
    /\ isPerformingOperation' = [isPerformingOperation EXCEPT ![c] = TRUE]
    /\ last' = Step("deleteItem", c, nOps + 1, itemId, NoEvent, FALSE)
    /\ UNCHANGED <<rows, items, loading, error, timers, feed, listId, registryVars, loads>>

\* reorderItems, lines 241-251: replaces items by the argument, then sends the updates
reorderItems(c, reorderedItems) ==
    /\ Issue(c, Call(nOps + 1, "reorder", listId[c], 0, <<>>, FALSE,
                     [k \in 1..Len(reorderedItems) |-> reorderedItems[k].id], 0))
    /\ items' = [items EXCEPT ![c] = reorderedItems]
    /\ last' = Step("reorderItems", c, nOps + 1, 0, NoEvent, FALSE)
    /\ UNCHANGED <<rows, loading, error, isPerformingOperation, timers, feed, listId, registryVars, loads>>

\* clearBoughtItems, lines 262-265
clearBoughtItems(c) ==
    /\ Issue(c, Call(nOps + 1, "clear", listId[c], 0, <<>>, FALSE, <<>>, 0))
    /\ last' = Step("clearBoughtItems", c, nOps + 1, 0, NoEvent, FALSE)
    /\ UNCHANGED <<rows, hookVars, feed, listId, registryVars, loads>>

\* fetchItems, lines 13-19
fetchItems(c) ==
    /\ Issue(c, Call(nOps + 1, "fetch", listId[c], 0, <<>>, FALSE, <<>>, 0))
    /\ loading' = [loading EXCEPT ![c] = TRUE]
    /\ error' = [error EXCEPT ![c] = FALSE]
    /\ last' = Step("fetchItems", c, nOps + 1, 0, NoEvent, FALSE)
    /\ UNCHANGED <<rows, items, isPerformingOperation, timers, feed, listId, registryVars, loads>>

----------------------------------------------------------------------------
(* ItemsService requests executed against the items table *)

Sent(c, i) == i \in 1..Len(calls[c]) /\ calls[c][i].st = "sent"

Answer(c, i, st, row, list) ==
    calls' = [calls EXCEPT ![c][i].st = st, ![c][i].res = row, ![c][i].resList = list,
                           ![c][i].id = IF calls[c][i].op = "add" THEN row.id ELSE @]

\* one row written: the table changes and the change is published on the row's list
Write(c, i, type, row) ==
    /\ rows' = IF row.id > Len(rows) THEN Append(rows, row) ELSE [rows EXCEPT ![row.id] = row]
    /\ feed' = Publish(feed, Event(type, row, c, calls[c][i].n))

\* the request fails at the network or the store: { data: null, error }
RequestFails(c, i) ==
    /\ Sent(c, i)
    /\ calls[c][i].op # "reorder"
    /\ Answer(c, i, "err", NoRow, <<>>)
    /\ last' = Quiet
    /\ UNCHANGED <<rows, feed, hookVars, listId, registryVars, loads, nOps>>

\* the request or its answer is lost and the awaited promise never settles
RequestLost(c, i) ==
    /\ Sent(c, i)
    /\ calls' = [calls EXCEPT ![c][i].st = "lost"]
    /\ last' = Quiet
    /\ UNCHANGED <<rows, feed, hookVars, listId, registryVars, loads, nOps>>

\* ItemsService.getListItems, items.ts 31-56
ItemsService_getListItems(c, i) ==
    /\ Sent(c, i)
    /\ calls[c][i].op = "fetch"
    /\ \E p \in Listings(calls[c][i].list) :
          Answer(c, i, "ok", NoRow, [k \in 1..Len(p) |-> rows[p[k]]])
    /\ last' = Quiet
    /\ UNCHANGED <<rows, feed, hookVars, listId, registryVars, loads, nOps>>

\* ItemsService.createItem inserting without validateItemText
createItemUnvalidated(c, i) ==
    /\ Sent(c, i)
    /\ calls[c][i].op = "add"
    /\ LET call == calls[c][i]
           row == [NewRow(Len(rows) + 1, call.list, sanitizeText(call.text), call.idx, c)
                      EXCEPT !.updated_at = call.n]
       IN  /\ Write(c, i, "INSERT", row)
           /\ Answer(c, i, "ok", row, <<>>)
    /\ last' = Quiet
    /\ UNCHANGED <<hookVars, listId, registryVars, loads, nOps>>

\* ItemsService.createItem, items.ts 85-127
ItemsService_createItem(c, i) ==
    /\ Sent(c, i)
    /\ calls[c][i].op = "add"
    /\ LET call == calls[c][i]
           row == [NewRow(Len(rows) + 1, call.list, sanitizeText(call.text), call.idx, c)
                      EXCEPT !.updated_at = call.n]
       IN  IF ~validateItemText(call.text)
           THEN /\ Answer(c, i, "err", NoRow, <<>>)
                /\ UNCHANGED <<rows, feed>>
           ELSE /\ Write(c, i, "INSERT", row)
                /\ Answer(c, i, "ok", row, <<>>)
    /\ last' = Quiet
    /\ UNCHANGED <<hookVars, listId, registryVars, loads, nOps>>

\* ItemsService.updateItem, items.ts 132-182 (updates = { text })
ItemsService_updateItem(c, i) ==
    /\ Sent(c, i)
    /\ calls[c][i].op = "update"
    /\ LET call == calls[c][i]
           row == [rows[call.id] EXCEPT !.text = sanitizeText(call.text), !.updated_at = call.n]
       IN  IF ~validateItemText(call.text)
           THEN /\ Answer(c, i, "err", NoRow, <<>>)
                /\ UNCHANGED <<rows, feed>>
           ELSE /\ Write(c, i, "UPDATE", row)
                /\ Answer(c, i, "ok", row, <<>>)
    /\ last' = Quiet
    /\ UNCHANGED <<hookVars, listId, registryVars, loads, nOps>>

\* ItemsService.toggleItemBought, items.ts 187-210
ItemsService_toggleItemBought(c, i) ==
    /\ Sent(c, i)
    /\ calls[c][i].op = "toggle"
    /\ LET call == calls[c][i]
           row == [rows[call.id] EXCEPT !.is_bought = call.flag, !.updated_at = call.n]
       IN  /\ Write(c, i, "UPDATE", row)
           /\ Answer(c, i, "ok", row, <<>>)
    /\ last' = Quiet
    /\ UNCHANGED <<hookVars, listId, registryVars, loads, nOps>>

\* ItemsService.deleteItem, items.ts 215-238: an UPDATE that sets is_deleted
ItemsService_deleteItem(c, i) ==
    /\ Sent(c, i)
    /\ calls[c][i].op = "delete"
    /\ LET call == calls[c][i]
           row == [rows[call.id] EXCEPT !.is_deleted = TRUE, !.updated_at = call.n]
       IN  /\ Write(c, i, "UPDATE", row)
           /\ Answer(c, i, "ok", row, <<>>)
    /\ last' = Quiet
    /\ UNCHANGED <<hookVars, listId, registryVars, loads, nOps>>

\* ItemsService.reorderItems giving every record the same position
reorderItemsSameIndex(c, i, fails) ==
    /\ Sent(c, i)
    /\ calls[c][i].op = "reorder"
    /\ LET call == calls[c][i]
           more == call.idx < Len(call.order)
           failed == call.flag \/ (more /\ fails)
           row == [rows[call.order[call.idx + 1]] EXCEPT !.order_index = 0, !.updated_at = call.n]
       IN  /\ IF more /\ ~fails
              THEN Write(c, i, "UPDATE", row)
              ELSE UNCHANGED <<rows, feed>>
           /\ calls' = [calls EXCEPT ![c][i].idx = IF more THEN call.idx + 1 ELSE call.idx,
                                     ![c][i].flag = failed,
                                     ![c][i].st = IF call.idx + 1 < Len(call.order) THEN "sent"
                                                  ELSE IF failed THEN "err" ELSE "ok"]
    /\ last' = Quiet
    /\ UNCHANGED <<hookVars, listId, registryVars, loads, nOps>>

\* ItemsService.reorderItems, items.ts 243-269: one update per record; this step is the
\* next of them (call.idx counts the ones handled), which the store applies or rejects;
\* the batch is answered after the last
ItemsService_reorderItems(c, i, fails) ==
    /\ Sent(c, i)
    /\ calls[c][i].op = "reorder"
    /\ LET call == calls[c][i]
           more == call.idx < Len(call.order)
           failed == call.flag \/ (more /\ fails)
           row == [rows[call.order[call.idx + 1]] EXCEPT !.order_index = call.idx, !.updated_at = call.n]
       IN  /\ IF more /\ ~fails
              THEN Write(c, i, "UPDATE", row)
              ELSE UNCHANGED <<rows, feed>>
           /\ calls' = [calls EXCEPT ![c][i].idx = IF more THEN call.idx + 1 ELSE call.idx,
                                     ![c][i].flag = failed,
                                     ![c][i].st = IF call.idx + 1 < Len(call.order) THEN "sent"
                                                  ELSE IF failed THEN "err" ELSE "ok"]
    /\ last' = Quiet
    /\ UNCHANGED <<hookVars, listId, registryVars, loads, nOps>>

\* the rows ItemsService.clearBoughtItems updates: .eq('list_id', l).eq('is_bought', true)
BoughtRows(l) == {k \in 1..Len(rows) : rows[k].list_id = l /\ rows[k].is_bought}

RECURSIVE PublishAll(_, _)
PublishAll(fd, evs) == IF evs = <<>> THEN fd ELSE PublishAll(Publish(fd, Head(evs)), Tail(evs))

\* ItemsService.clearBoughtItems, items.ts 318-340: one statement, one UPDATE event per row.
\* The answer carries no data; resList keeps the rows written (observation only).
ItemsService_clearBoughtItems(c, i) ==
    /\ Sent(c, i)
    /\ calls[c][i].op = "clear"
    /\ LET call == calls[c][i]
           hit == BoughtRows(call.list)
           new == [k \in 1..Len(rows) |->
                      IF k \in hit THEN [rows[k] EXCEPT !.is_deleted = TRUE, !.updated_at = call.n]
                      ELSE rows[k]]
           written == SelectSeq(new, LAMBDA r : r.id \in hit)
           evs == [k \in 1..Len(written) |-> Event("UPDATE", written[k], c, call.n)]
       IN  /\ rows' = new
           /\ feed' = PublishAll(feed, evs)
           /\ Answer(c, i, "ok", NoRow, written)
    /\ last' = Quiet
    /\ UNCHANGED <<hookVars, listId, registryVars, loads, nOps>>

----------------------------------------------------------------------------
(* useList continuations: the code after the await, run when the answer arrives *)

Answered(c, i) == i \in 1..Len(calls[c]) /\ calls[c][i].st \in {"ok", "err"}

ReplaceItem(its, itemId, new) == [k \in 1..Len(its) |-> IF its[k].id = itemId THEN new ELSE its[k]]

RemoveItem(its, itemId) == SelectSeq(its, LAMBDA it : it.id # itemId)

Failed(c) ==
    /\ error' = [error EXCEPT ![c] = TRUE]
    /\ UNCHANGED <<items, loading, timers>>

Release(c) == isPerformingOperation' = [isPerformingOperation EXCEPT ![c] = FALSE]

\* setTimeout(() => { isPerformingOperation.current = false }, 500), set by operation n on itemId
ReleaseLater(c, n, itemId) == timers' = [timers EXCEPT ![c] = Append(@, [n |-> n, id |-> itemId])]

\* addItem leaving the flag set when the create request has failed
addItemDoneKeepsFlag(c, i) ==
    LET call == calls[c][i] IN
    /\ UNCHANGED loads
    /\ call.op = "add"
    /\ IF call.st = "err"
       THEN Failed(c) /\ UNCHANGED isPerformingOperation
       ELSE /\ items' = [items EXCEPT ![c] = Append(@, MapCreated(call.res))]
            /\ ReleaseLater(c, call.n, call.id)
            /\ UNCHANGED <<loading, error, isPerformingOperation>>
    /\ calls' = [calls EXCEPT ![c] = RemoveAt(@, i)]

\* addItem, lines 125-154: what the code after the await does to the hook
addItemSettles(c, i) ==
    LET call == calls[c][i] IN
    /\ UNCHANGED loads
    /\ call.op = "add"
    /\ IF call.st = "err"
       THEN Failed(c) /\ Release(c)
       ELSE /\ items' = [items EXCEPT ![c] = Append(@, MapCreated(call.res))]
            /\ ReleaseLater(c, call.n, call.id)
            /\ UNCHANGED <<loading, error, isPerformingOperation>>

\* addItem, lines 125-154, called on its own: nothing awaits the promise it returns
addItemDone(c, i) ==
    /\ addItemSettles(c, i)
    /\ calls' = [calls EXCEPT ![c] = RemoveAt(@, i)]

\* updateItem, lines 161-182
updateItemDone(c, i) ==
    LET call == calls[c][i] IN
    /\ UNCHANGED loads
    /\ call.op = "update"
    /\ IF call.st = "err"
       THEN Failed(c)
       ELSE /\ items' = [items EXCEPT ![c] = ReplaceItem(@, call.id, MapChanged(call.res))]
            /\ UNCHANGED <<loading, error, timers>>
    /\ UNCHANGED isPerformingOperation
    /\ calls' = [calls EXCEPT ![c] = RemoveAt(@, i)]

\* toggleItem, lines 191-217
toggleItemDone(c, i) ==
    LET call == calls[c][i] IN
    /\ UNCHANGED loads
    /\ call.op = "toggle"
    /\ IF call.st = "err"
       THEN Failed(c) /\ Release(c)
       ELSE /\ items' = [items EXCEPT ![c] = ReplaceItem(@, call.id, MapChanged(call.res))]
            /\ ReleaseLater(c, call.n, call.id)
            /\ UNCHANGED <<loading, error, isPerformingOperation>>
    /\ calls' = [calls EXCEPT ![c] = RemoveAt(@, i)]

\* deleteItem removing the record whatever the answer
deleteItemDoneNoRollback(c, i) ==
    LET call == calls[c][i] IN
    /\ UNCHANGED loads
    /\ call.op = "delete"
    /\ items' = [items EXCEPT ![c] = RemoveItem(@, call.id)]
    /\ IF call.st = "err"
       THEN /\ error' = [error EXCEPT ![c] = TRUE]
            /\ Release(c)
            /\ UNCHANGED <<loading, timers>>
       ELSE /\ ReleaseLater(c, call.n, call.id)
            /\ UNCHANGED <<loading, error, isPerformingOperation>>
    /\ calls' = [calls EXCEPT ![c] = RemoveAt(@, i)]

\* deleteItem, lines 226-237
deleteItemDone(c, i) ==
    LET call == calls[c][i] IN
    /\ UNCHANGED loads
    /\ call.op = "delete"
    /\ IF call.st = "err"
       THEN Failed(c) /\ Release(c)
       ELSE /\ items' = [items EXCEPT ![c] = RemoveItem(@, call.id)]
            /\ ReleaseLater(c, call.n, call.id)
            /\ UNCHANGED <<loading, error, isPerformingOperation>>
    /\ calls' = [calls EXCEPT ![c] = RemoveAt(@, i)]

\* reorderItems, lines 253-258: on error, setError and fetchItems() (up to its await)
reorderItemsDone(c, i) ==
    LET call == calls[c][i] IN
    /\ UNCHANGED loads
    /\ call.op = "reorder"
    /\ IF call.st = "err"
       THEN /\ loading' = [loading EXCEPT ![c] = TRUE]
            /\ error' = [error EXCEPT ![c] = FALSE]
            /\ calls' = [calls EXCEPT ![c] =
                  Append(RemoveAt(@, i), Call(call.n, "fetch", listId[c], 0, <<>>, FALSE, <<>>, 0))]
       ELSE /\ calls' = [calls EXCEPT ![c] = RemoveAt(@, i)]
            /\ UNCHANGED <<loading, error>>
    /\ UNCHANGED <<items, isPerformingOperation, timers>>

\* clearBoughtItems removing the bought records whatever the answer
clearBoughtItemsDoneAlways(c, i) ==
    LET call == calls[c][i] IN
    /\ UNCHANGED loads
    /\ call.op = "clear"
    /\ items' = [items EXCEPT ![c] = SelectSeq(@, LAMBDA it : ~it.isBought)]
    /\ error' = [error EXCEPT ![c] = IF call.st = "err" THEN TRUE ELSE @]
    /\ UNCHANGED <<loading, timers, isPerformingOperation>>
    /\ calls' = [calls EXCEPT ![c] = RemoveAt(@, i)]

\* clearBoughtItems, lines 267-273
clearBoughtItemsDone(c, i) ==
    LET call == calls[c][i] IN
    /\ UNCHANGED loads
    /\ call.op = "clear"
    /\ IF call.st = "err"
       THEN Failed(c)
       ELSE /\ items' = [items EXCEPT ![c] = SelectSeq(@, LAMBDA it : ~it.isBought)]
            /\ UNCHANGED <<loading, error, timers>>
    /\ UNCHANGED isPerformingOperation
    /\ calls' = [calls EXCEPT ![c] = RemoveAt(@, i)]

\* fetchItems adding the fetched records to the ones it has
LoadedMerged(prev, ok, data) == IF ok THEN prev \o [k \in 1..Len(data) |-> MapFetched(data[k])] ELSE <<>>

\* fetchItems, lines 21-43: the new value of items, given the old one and the answer
Loaded(prev, ok, data) == IF ok THEN [k \in 1..Len(data) |-> MapFetched(data[k])] ELSE <<>>

\* fetchItems, lines 21-45
fetchItemsDone(c, i) ==
    LET call == calls[c][i] IN
    /\ call.op = "fetch"
    /\ items' = [items EXCEPT ![c] = Loaded(@, call.st = "ok", call.resList)]
    /\ error' = [error EXCEPT ![c] = IF call.st = "err" THEN TRUE ELSE @]
    /\ loads' = [loads EXCEPT ![c] =
                    Append(@, [n |-> call.n, ok |-> call.st = "ok", data |-> call.resList])]
    /\ loading' = [loading EXCEPT ![c] = FALSE]
    /\ UNCHANGED <<isPerformingOperation, timers>>
    /\ calls' = [calls EXCEPT ![c] = RemoveAt(@, i)]

Respond(c, i) ==
    /\ Answered(c, i)
    /\ \/ addItemDone(c, i)
       \/ updateItemDone(c, i)
       \/ toggleItemDone(c, i)
       \/ deleteItemDone(c, i)
       \/ reorderItemsDone(c, i)
       \/ clearBoughtItemsDone(c, i)
       \/ fetchItemsDone(c, i)
    /\ last' = IF calls[c][i].op = "fetch"
               THEN Step("fetchItemsDone", c, calls[c][i].n, 0, NoEvent, calls[c][i].st = "ok")
               ELSE Quiet
    /\ UNCHANGED <<rows, feed, listId, registryVars, nOps>>

\* a 500 ms timer of addItem / toggleItem / deleteItem fires
TimerFires(c) ==
    /\ timers[c] # <<>>
    /\ timers' = [timers EXCEPT ![c] = Tail(@)]
    /\ Release(c)
    /\ last' = Quiet
    /\ UNCHANGED <<rows, items, loading, error, calls, feed, listId, registryVars, loads, nOps>>

----------------------------------------------------------------------------
(* ListScreen.handleAddItem and NotificationService.notifyListMembers *)

\* ListScreen.handleAddItem, line 204: await addItem(...)
handleAddItem(c, text) == addItem(c, text)

\* the notifyListMembers call handleAddItem starts for the add call: id is the row the add
\* created (NoRow.id when it created none); st names the await the call stands at:
\* "members" (list_members lookup), "tokens" (profiles lookup), "push" (the push request)
Notify(call) ==
    [Call(call.n, "notify", call.list, call.id, call.text, FALSE, <<>>, 0) EXCEPT !.st = "members"]

\* ListScreen.handleAddItem, lines 204-216: addItem's promise resolves, on either path of
\* its continuation, and the code after the await calls notifyListMembers without
\* awaiting it (currentListId and user are set: the list is open and the user signed in)
handleAddItemDone(c, i) ==
    /\ Answered(c, i)
    /\ addItemSettles(c, i)
    /\ calls' = [calls EXCEPT ![c] = Append(RemoveAt(@, i), Notify(calls[c][i]))]
    /\ last' = Step("handleAddItem", c, calls[c][i].n, calls[c][i].id, NoEvent, calls[c][i].st = "ok")
    /\ UNCHANGED <<rows, feed, listId, registryVars, nOps>>

\* what each await of notifyListMembers can come to: data, no data (an error result or an
\* empty one), or an exception
Outcomes == {"data", "none", "throws"}

Notifying(c, i) == i \in 1..Len(calls[c]) /\ calls[c][i].op = "notify"

\* the promise of notifyListMembers settles: the call is over. applied tells whether the
\* push request was sent, a whether the promise resolved or rejected
NotifySettles(c, i, a, pushed) ==
    /\ calls' = [calls EXCEPT ![c] = RemoveAt(@, i)]
    /\ last' = Step(a, c, calls[c][i].n, calls[c][i].id, NoEvent, pushed)

\* notifyListMembers without its try/catch: an exception rejects the promise
notifyUncaught(c, i, outcome) ==
    /\ Notifying(c, i)
    /\ LET st == calls[c][i].st IN
       CASE outcome = "throws" -> NotifySettles(c, i, "notifyRejected", FALSE)
         [] outcome = "none" -> st # "push" /\ NotifySettles(c, i, "notifyListMembers", FALSE)
         [] outcome = "data" ->
                IF st = "push"
                THEN NotifySettles(c, i, "notifyListMembers", TRUE)
                ELSE /\ calls' = [calls EXCEPT ![c][i].st = IF st = "members" THEN "tokens" ELSE "push"]
                     /\ last' = Quiet
    /\ UNCHANGED <<rows, feed, hookVars, listId, registryVars, loads, nOps>>

\* NotificationService.notifyListMembers, notifications.ts 80-137, one await at a time:
\* the member lookup (89-95), the token lookup (100-106), the push request (123-131);
\* an exception of any of them is caught and logged (134-136)
NotificationService_notifyListMembers(c, i, outcome) ==
    /\ Notifying(c, i)
    /\ LET st == calls[c][i].st IN
       CASE outcome = "throws" -> NotifySettles(c, i, "notifyListMembers", FALSE)
         [] outcome = "none" -> st # "push" /\ NotifySettles(c, i, "notifyListMembers", FALSE)
         [] outcome = "data" ->
                IF st = "push"
                THEN NotifySettles(c, i, "notifyListMembers", TRUE)
                ELSE /\ calls' = [calls EXCEPT ![c][i].st = IF st = "members" THEN "tokens" ELSE "push"]
                     /\ last' = Quiet
    /\ UNCHANGED <<rows, feed, hookVars, listId, registryVars, loads, nOps>>

----------------------------------------------------------------------------
(* The realtime handler *)

\* an event whose row payload is absent (change.item undefined); a row whose id is
\* absent has id NoId, which equals only itself as undefined does under ===
NoId == 0
MissingRow == Row(-1, "L1", <<>>, FALSE, FALSE, 0, NoUser)

\* handleRealtimeChange throws: dbItem.id on an absent payload (useList.ts 66-68)
handlerThrows(flag, change) == ~flag /\ change.item = MissingRow

\* handleRealtimeChange applying a DELETE by position: splice(findIndex(...), 1)
handleDeleteByIndex(flag, its, change) ==
    IF flag \/ change.item = MissingRow THEN its
    ELSE IF change.type = "INSERT"
         THEN IF change.item.id \in Ids(its) THEN its ELSE Append(its, MapChanged(change.item))
    ELSE IF change.type = "UPDATE" THEN ReplaceItem(its, change.item.id, MapChanged(change.item))
    ELSE IF change.type = "DELETE"
         THEN IF change.item.id \in Ids(its) THEN RemoveItem(its, change.item.id)
              ELSE SubSeq(its, 1, Len(its) - 1)
    ELSE its

\* handleRealtimeChange appending every INSERT without looking for the id
handleNoDedupe(flag, its, change) ==
    IF flag \/ change.item = MissingRow THEN its
    ELSE IF change.type = "INSERT" THEN Append(its, MapChanged(change.item))
    ELSE IF change.type = "UPDATE" THEN ReplaceItem(its, change.item.id, MapChanged(change.item))
    ELSE IF change.type = "DELETE" THEN RemoveItem(its, change.item.id)
    ELSE its

\* handleRealtimeChange, useList.ts 60-99, as a function of the flag, items and the event;
\* when it throws, it does so before any setItems
handleRealtimeChange(flag, its, change) ==
    LET mappedItem == MapChanged(change.item) IN
    IF flag THEN its
    ELSE IF change.item = MissingRow THEN its
    ELSE IF change.type = "INSERT"
         THEN IF mappedItem.id \in Ids(its) THEN its ELSE Append(its, mappedItem)
    ELSE IF change.type = "UPDATE" THEN ReplaceItem(its, mappedItem.id, mappedItem)
    ELSE IF change.type = "DELETE" THEN RemoveItem(its, mappedItem.id)
    ELSE its

\* the channel of the list the hook is bound to delivers its next event to the handler
Deliver(c) ==
    /\ feed[c] # <<>>
    /\ feed' = [feed EXCEPT ![c] = Tail(@)]
    /\ items' = [items EXCEPT ![c] = handleRealtimeChange(isPerformingOperation[c], @, Head(feed[c]))]
    /\ last' = Step(IF handlerThrows(isPerformingOperation[c], Head(feed[c])) THEN "DeliverThrew" ELSE "Deliver",
                    c, Head(feed[c]).n, Head(feed[c]).item.id, Head(feed[c]),
                    ~isPerformingOperation[c])
    /\ UNCHANGED <<rows, loading, error, isPerformingOperation, timers, calls, listId,
                   registryVars, loads, nOps>>

\* the events the channel may hand to the handler: any type, a row with an id in 1..3 or
\* without one, or no row at all
HandlerEvents ==
    {Event(t, Row(i, "L1", <<"e">>, b, FALSE, 0, OtherUser), OtherUser, 1) :
        t \in {"INSERT", "UPDATE", "DELETE"}, i \in {NoId, 1, 2, 3}, b \in BOOLEAN}
    \cup {Event(t, MissingRow, OtherUser, 1) : t \in {"INSERT", "UPDATE", "DELETE"}}

\* the channel of c receives ev, once or twice in a row (ev.n numbers the copies)
Arrives(c, ev, copies) ==
    /\ channels[c][listId[c]] # NoChannel
    /\ feed' = [feed EXCEPT ![c] = @ \o [k \in 1..copies |-> [ev EXCEPT !.n = k]]]
    /\ nOps' = nOps + 1
    /\ last' = Quiet
    /\ UNCHANGED <<rows, hookVars, calls, listId, registryVars, loads>>

----------------------------------------------------------------------------
(* RealtimeService: the channel registry *)

\* subscribeToListItems without the check for an existing channel
subscribeUnchecked(c, l) ==
    /\ nChannels[c] < MaxChannels
    /\ nChannels' = [nChannels EXCEPT ![c] = @ + 1]
    /\ opened' = [opened EXCEPT ![c] = @ \cup {[ch |-> nChannels[c] + 1, list |-> l]}]
    /\ channels' = [channels EXCEPT ![c][l] = nChannels[c] + 1]
    /\ last' = Step("subscribeToListItems", c, 0, nChannels[c] + 1, NoEvent, TRUE)
    /\ UNCHANGED <<rows, hookVars, calls, feed, listId, loads, nOps>>

\* subscribeToListItems, realtime.ts 24-93; last.id is the channel returned
subscribeToListItems(c, l) ==
    /\ IF channels[c][l] # NoChannel
       THEN /\ last' = Step("subscribeToListItems", c, 0, channels[c][l], NoEvent, FALSE)
            /\ UNCHANGED registryVars
       ELSE /\ nChannels[c] < MaxChannels
            /\ nChannels' = [nChannels EXCEPT ![c] = @ + 1]
            /\ opened' = [opened EXCEPT ![c] = @ \cup {[ch |-> nChannels[c] + 1, list |-> l]}]
            /\ channels' = [channels EXCEPT ![c][l] = nChannels[c] + 1]
            /\ last' = Step("subscribeToListItems", c, 0, nChannels[c] + 1, NoEvent, TRUE)
    /\ UNCHANGED <<rows, hookVars, calls, feed, listId, loads, nOps>>

\* supabase.removeChannel: the channel is closed and its undelivered events are discarded
Discard(fd, l) == SelectSeq(fd, LAMBDA ev : ev.item.list_id # l)

\* unsubscribeFromListItems, realtime.ts 98-106
unsubscribeFromListItems(c, l) ==
    /\ IF channels[c][l] # NoChannel
       THEN /\ opened' = [opened EXCEPT ![c] = @ \ {[ch |-> channels[c][l], list |-> l]}]
            /\ channels' = [channels EXCEPT ![c][l] = NoChannel]
            /\ feed' = [feed EXCEPT ![c] = Discard(@, l)]
            /\ UNCHANGED nChannels
       ELSE UNCHANGED <<registryVars, feed>>
    /\ last' = Step("unsubscribeFromListItems", c, 0, channels[c][l], NoEvent, channels[c][l] # NoChannel)
    /\ UNCHANGED <<rows, hookVars, calls, listId, loads, nOps>>

\* unsubscribeAll, realtime.ts 111-117
unsubscribeAll(c) ==
    /\ opened' = [opened EXCEPT ![c] =
                     @ \ {[ch |-> channels[c][l], list |-> l] : l \in Lists}]
    /\ channels' = [channels EXCEPT ![c] = [l \in Lists |-> NoChannel]]
    /\ feed' = [feed EXCEPT ![c] =
                   SelectSeq(@, LAMBDA ev : channels[c][ev.item.list_id] = NoChannel)]
    /\ last' = Step("unsubscribeAll", c, 0, 0, NoEvent, TRUE)
    /\ UNCHANGED <<nChannels, rows, hookVars, calls, listId, loads, nOps>>

----------------------------------------------------------------------------
(* The hook bound to another list *)

\* the hook bound to a new list without the cleanup of its subscription effect
selectListNoCleanup(c, l) ==
    /\ l # listId[c]
    /\ nChannels[c] < MaxChannels
    /\ listId' = [listId EXCEPT ![c] = l]
    /\ IF channels[c][l] # NoChannel
       THEN UNCHANGED registryVars
       ELSE /\ channels' = [channels EXCEPT ![c][l] = nChannels[c] + 1]
            /\ opened' = [opened EXCEPT ![c] = @ \cup {[ch |-> nChannels[c] + 1, list |-> l]}]
            /\ nChannels' = [nChannels EXCEPT ![c] = @ + 1]
    /\ Issue(c, Call(nOps + 1, "fetch", l, 0, <<>>, FALSE, <<>>, 0))
    /\ loading' = [loading EXCEPT ![c] = TRUE]
    /\ error' = [error EXCEPT ![c] = FALSE]
    /\ last' = Step("selectList", c, nOps + 1, channels'[c][l], NoEvent, TRUE)
    /\ UNCHANGED <<rows, items, isPerformingOperation, timers, loads, feed>>

\* ListScreen onSelectList -> useList(listId) with a new listId: the cleanup of the
\* subscription effect runs for the old list (useList.ts 105-107), then the effects of the
\* new list run: fetchItems() up to its await (49-51) and subscribeToListItems (102)
selectList(c, l) ==
    LET old == listId[c]
        kept == [channels[c] EXCEPT ![old] = NoChannel]
        existing == kept[l]
    IN  /\ l # old
        /\ nChannels[c] < MaxChannels
        /\ listId' = [listId EXCEPT ![c] = l]
        /\ feed' = [feed EXCEPT ![c] = IF channels[c][old] # NoChannel THEN Discard(@, old) ELSE @]
        /\ channels' = [channels EXCEPT ![c] =
                           IF existing # NoChannel THEN kept ELSE [kept EXCEPT ![l] = nChannels[c] + 1]]
        /\ opened' = [opened EXCEPT ![c] =
                         (@ \ {[ch |-> channels[c][old], list |-> old]})
                         \cup (IF existing # NoChannel THEN {} ELSE {[ch |-> nChannels[c] + 1, list |-> l]})]
        /\ nChannels' = [nChannels EXCEPT ![c] = IF existing # NoChannel THEN @ ELSE @ + 1]
        /\ Issue(c, Call(nOps + 1, "fetch", l, 0, <<>>, FALSE, <<>>, 0))
        /\ loading' = [loading EXCEPT ![c] = TRUE]
        /\ error' = [error EXCEPT ![c] = FALSE]
        /\ last' = Step("selectList", c, nOps + 1, channels'[c][l], NoEvent, TRUE)
        /\ UNCHANGED <<rows, items, isPerformingOperation, timers, loads>>

----------------------------------------------------------------------------
(* Specifications *)

\* what the list screen can pass: the record's id and the negation of its isBought
Toggles(c) == {<<items[c][k].id, ~items[c][k].isBought>> : k \in 1..Len(items[c])}

\* the orders a drag of the not-bought list can end in (DraggableList items={unboughtItems})
Drags(c) ==
    LET u == unboughtItems(items[c])
    IN  {[k \in 1..Len(u) |-> u[p[k]]] : p \in Perms(1..Len(u))}

\* addItem / updateItem / toggleItem / deleteItem started by a client of C, fewer than max so far
Mutation(C, max) ==
    \/ \E c \in C, t \in Texts : nOps < max /\ addItem(c, t)
    \/ \E c \in C : \E itemId \in Ids(items[c]) : nOps < max /\ updateItem(c, itemId, NewText)
    \/ \E c \in C : \E tg \in Toggles(c) : nOps < max /\ toggleItem(c, tg[1], tg[2])
    \/ \E c \in C : \E itemId \in Ids(items[c]) : nOps < max /\ deleteItem(c, itemId)

\* reorderItems / clearBoughtItems started by a client of C
Batch(C, max) ==
    \/ \E c \in C : \E r \in Drags(c) : nOps < max /\ Len(r) > 1 /\ reorderItems(c, r)
    \/ \E c \in C : nOps < max /\ boughtItems(items[c]) # <<>> /\ clearBoughtItems(c)

StoreMutation ==
    \/ \E c \in Clients : \E i \in 1..Len(calls[c]) : RequestFails(c, i)
    \/ \E c \in Clients : \E i \in 1..Len(calls[c]) : ItemsService_createItem(c, i)
    \/ \E c \in Clients : \E i \in 1..Len(calls[c]) : ItemsService_updateItem(c, i)
    \/ \E c \in Clients : \E i \in 1..Len(calls[c]) : ItemsService_toggleItemBought(c, i)
    \/ \E c \in Clients : \E i \in 1..Len(calls[c]) : ItemsService_deleteItem(c, i)

StoreBatch ==
    \/ \E c \in Clients : \E i \in 1..Len(calls[c]) : ItemsService_getListItems(c, i)
    \/ \E c \in Clients : \E i \in 1..Len(calls[c]) : \E f \in BOOLEAN : ItemsService_reorderItems(c, i, f)
    \/ \E c \in Clients : \E i \in 1..Len(calls[c]) : ItemsService_clearBoughtItems(c, i)

Client ==
    \/ \E c \in Clients : \E i \in 1..Len(calls[c]) : Respond(c, i)
    \/ \E c \in Clients : TimerFires(c)
    \/ \E c \in Clients : Deliver(c)

\* Two clients on one list, MaxOps operations between them
Next ==
    \/ Mutation(Clients, MaxOps)
    \/ Batch(Clients, MaxOps)
    \/ StoreMutation
    \/ StoreBatch
    \/ Client

Spec == Init /\ [][Next]_vars

\* Two clients on one list, add / update / toggle / delete only
NextCrud == Mutation(Clients, MaxOps) \/ StoreMutation \/ Client

SpecCrud == Init /\ [][NextCrud]_vars

\* One client operating, the other listening
NextSolo ==
    \/ Mutation({"A"}, SoloOps)
    \/ Batch({"A"}, SoloOps)
    \/ StoreMutation
    \/ StoreBatch
    \/ Client

SpecSolo == Init /\ [][NextSolo]_vars

\* One client operating; a request may stay unanswered; every step that can be taken is taken
NextLossy ==
    \/ NextSolo
    \/ \E c \in Clients : \E i \in 1..Len(calls[c]) : RequestLost(c, i)

SpecLossy ==
    /\ Init
    /\ [][NextLossy]_vars
    /\ WF_vars(StoreMutation \/ StoreBatch)
    /\ \A c \in Clients : WF_vars(\E i \in 1..Len(calls[c]) : Respond(c, i))
    /\ \A c \in Clients : WF_vars(TimerFires(c))
    /\ \A c \in Clients : WF_vars(Deliver(c))

\* fetchItems calls client c has started
Fetches(c) == Len(loads[c]) + Cardinality({k \in 1..Len(calls[c]) : calls[c][k].op = "fetch"})

\* ItemsService.toggleItemBought(itemId, true) by the other member, items.ts 187-210
OtherMarksBought(itemId) ==
    /\ ~rows[itemId].is_bought
    /\ rows' = [rows EXCEPT ![itemId].is_bought = TRUE, ![itemId].updated_at = OtherClock]
    /\ feed' = Publish(feed, Event("UPDATE", rows'[itemId], OtherUser, 0))
    /\ last' = Quiet
    /\ UNCHANGED <<hookVars, calls, listId, registryVars, loads, nOps>>

\* ItemsService.deleteItem(itemId) by the other member, items.ts 215-238
OtherDeletes(itemId) ==
    /\ ~rows[itemId].is_deleted
    /\ rows' = [rows EXCEPT ![itemId].is_deleted = TRUE, ![itemId].updated_at = OtherClock]
    /\ feed' = Publish(feed, Event("UPDATE", rows'[itemId], OtherUser, 0))
    /\ last' = Quiet
    /\ UNCHANGED <<hookVars, calls, listId, registryVars, loads, nOps>>

\* Client A loads (mount, focus, pull-to-refresh) while another member marks and deletes
NextLoad ==
    \/ Fetches("A") < MaxLoads /\ fetchItems("A")
    \/ \E itemId \in 1..Len(rows) : OtherMarksBought(itemId)
    \/ \E itemId \in 1..Len(rows) : OtherDeletes(itemId)
    \/ \E c \in Clients : \E i \in 1..Len(calls[c]) : RequestFails(c, i)
    \/ \E c \in Clients : \E i \in 1..Len(calls[c]) : ItemsService_getListItems(c, i)
    \/ \E c \in Clients : \E i \in 1..Len(calls[c]) : Respond(c, i)
    \/ \E c \in Clients : Deliver(c)

SpecLoad == InitWith({"A"}) /\ [][NextLoad]_vars

\* ItemsService.createItem by the other member, items.ts 85-127
OtherAdds(l) ==
    /\ rows' = Append(rows, [NewRow(Len(rows) + 1, l, <<"n">>, Cardinality(Visible(l)), OtherUser)
                               EXCEPT !.updated_at = OtherClock])
    /\ feed' = Publish(feed, Event("INSERT", rows'[Len(rows')], OtherUser, 0))
    /\ last' = Quiet
    /\ UNCHANGED <<hookVars, calls, listId, registryVars, loads, nOps>>

\* Client A switches between the lists while another member writes to both
NextCancel ==
    \/ \E l \in Lists : selectList("A", l)
    \/ \E l \in Lists : Len(rows) < MaxRows /\ OtherAdds(l)
    \/ \E itemId \in 1..Len(rows) : OtherMarksBought(itemId)
    \/ \E c \in Clients : \E i \in 1..Len(calls[c]) : ItemsService_getListItems(c, i)
    \/ \E c \in Clients : \E i \in 1..Len(calls[c]) : Respond(c, i)
    \/ \E c \in Clients : Deliver(c)

SpecCancel == InitWith({"A"}) /\ [][NextCancel]_vars

\* the channel hands two events about one record to its callbacks in the order opposite
\* to the one they were committed in
Swap(c) ==
    /\ \E k \in 1..(Len(feed[c]) - 1) :
          /\ feed[c][k].item.id = feed[c][k + 1].item.id
          /\ feed' = [feed EXCEPT ![c] = [j \in 1..Len(@) |->
                          IF j = k THEN @[k + 1] ELSE IF j = k + 1 THEN @[k] ELSE @[j]]]
    /\ last' = Quiet
    /\ UNCHANGED <<rows, hookVars, calls, listId, registryVars, loads, nOps>>

\* Client A has the list open while another member adds records and marks them bought,
\* over a channel that may deliver out of order
NextDisorder ==
    \/ \E l \in Lists : Len(rows) < MaxRows /\ OtherAdds(l)
    \/ \E itemId \in 1..Len(rows) : OtherMarksBought(itemId)
    \/ \E c \in Clients : Swap(c)
    \/ \E c \in Clients : Deliver(c)

SpecDisorder == InitWith({"A"}) /\ [][NextDisorder]_vars

\* The handler of client A under any events, each delivered once or twice
NextHandler ==
    \/ \E ev \in HandlerEvents, copies \in 1..2 : nOps < MaxEvents /\ Arrives("A", ev, copies)
    \/ Deliver("A")

SpecHandler == InitWith({"A"}) /\ [][NextHandler]_vars

\* the arguments reorderItems can get: an order of the not-bought records (what the
\* list screen passes) or an order of all records
Orders(c) == Drags(c) \cup {[k \in 1..Len(items[c]) |-> items[c][p[k]]] : p \in Perms(1..Len(items[c]))}

\* nothing of client c is pending: no call, no event, no timer
Idle(c) == calls[c] = <<>> /\ feed[c] = <<>> /\ timers[c] = <<>>

\* Client A alone on the list, each operation started when the one before has settled:
\* add, toggle, drag
NextReorder ==
    \/ \E t \in Texts : Idle("A") /\ nOps < MaxDrags /\ addItem("A", t)
    \/ \E tg \in Toggles("A") : Idle("A") /\ nOps < MaxDrags /\ toggleItem("A", tg[1], tg[2])
    \/ \E r \in Orders("A") : Idle("A") /\ nOps < MaxDrags /\ Len(r) > 1 /\ reorderItems("A", r)
    \/ \E c \in Clients : \E i \in 1..Len(calls[c]) : RequestFails(c, i)
    \/ \E c \in Clients : \E i \in 1..Len(calls[c]) : ItemsService_createItem(c, i)
    \/ \E c \in Clients : \E i \in 1..Len(calls[c]) : ItemsService_toggleItemBought(c, i)
    \/ \E c \in Clients : \E i \in 1..Len(calls[c]) : \E f \in BOOLEAN : ItemsService_reorderItems(c, i, f)
    \/ \E c \in Clients : \E i \in 1..Len(calls[c]) : ItemsService_getListItems(c, i)
    \/ Client

SpecReorder == InitWith({"A"}) /\ [][NextReorder]_vars

\* Client A adds items with good and bad texts
NextValidate ==
    \/ \E t \in AddTexts : nOps < MaxOps /\ addItem("A", t)
    \/ \E c \in Clients : \E i \in 1..Len(calls[c]) : RequestFails(c, i)
    \/ \E c \in Clients : \E i \in 1..Len(calls[c]) : ItemsService_createItem(c, i)
    \/ Client

SpecValidate == InitWith({"A"}) /\ [][NextValidate]_vars

\* Client A adds items from the list screen, with good and bad texts, over a store that may fail
NextNotify ==
    \/ \E t \in AddTexts : nOps < SoloOps /\ handleAddItem("A", t)
    \/ \E c \in Clients : \E i \in 1..Len(calls[c]) : RequestFails(c, i)
    \/ \E c \in Clients : \E i \in 1..Len(calls[c]) : ItemsService_createItem(c, i)
    \/ \E c \in Clients : \E i \in 1..Len(calls[c]) : handleAddItemDone(c, i)
    \/ \E c \in Clients : \E i \in 1..Len(calls[c]) : \E o \in Outcomes :
          NotificationService_notifyListMembers(c, i, o)
    \/ \E c \in Clients : TimerFires(c)
    \/ \E c \in Clients : Deliver(c)

SpecNotify == InitWith({"A"}) /\ [][NextNotify]_vars

\* The channel registry of each client under any sequence of its three calls
NextRealtime ==
    \/ \E c \in Clients, l \in Lists : subscribeToListItems(c, l)
    \/ \E c \in Clients, l \in Lists : unsubscribeFromListItems(c, l)
    \/ \E c \in Clients : unsubscribeAll(c)

SpecRealtime == Init /\ [][NextRealtime]_vars

----------------------------------------------------------------------------
(* Properties *)

InFlight(c) == {k \in 1..Len(calls[c]) : calls[c][k].st \in {"sent", "ok", "err"}}

\* every request answered and its continuation run, every event delivered, every timer fired
Settled == \A c \in Clients : calls[c] = <<>> /\ feed[c] = <<>> /\ timers[c] = <<>>

\* C1 (as claimed): once the clients' add / update / toggle / delete calls have settled,
\* the ids in each client's items are the ids of the non-deleted rows of its list.
Convergence == Settled => \A c \in Clients : Ids(items[c]) = Visible(listId[c])

\* C2 (as claimed): items never holds two records with the same id.
NoDuplicates ==
    \A c \in Clients : \A i, j \in 1..Len(items[c]) : i # j => items[c][i].id # items[c][j].id

\* the record ids of c's mutations that are in flight or inside their 500 ms window
Targets(c) ==
    {calls[c][k].id : k \in InFlight(c)} \cup {timers[c][k].id : k \in 1..Len(timers[c])}

\* C3 (as claimed): an event written by another client for a record that no local
\* mutation in flight or just confirmed targets is applied by the handler, not dropped.
GuardScoping ==
    (/\ last.a = "Deliver"
     /\ last.ev.by # last.c
     /\ last.id \notin Targets(last.c))
    => last.applied

\* the toggleItem calls of c whose answer is not yet processed or whose window is open
OpenToggles(c) ==
    {calls[c][k].n : k \in {k \in InFlight(c) : calls[c][k].op = "toggle"}}
    \cup {timers[c][k].n : k \in 1..Len(timers[c])}

\* C4 (as claimed): the UPDATE echo of a toggleItem, delivered before the answer is
\* processed or within the window after it, is dropped and leaves items as it was.
SelfEchoSuppression ==
    (/\ last.a = "Deliver"
     /\ last.ev.type = "UPDATE"
     /\ last.ev.by = last.c
     /\ last.ev.n \in OpenToggles(last.c))
    => ~last.applied

\* C5 (as claimed): after the handler has processed, with the flag clear, the event of a
\* soft delete made by another client, the record is not in items.
TombstoneExclusion ==
    (/\ last.a = "Deliver"
     /\ last.applied
     /\ last.ev.by # last.c
     /\ last.ev.item.is_deleted)
    => last.id \notin Ids(items[last.c])

\* C7 (as claimed): while an addItem / updateItem / toggleItem / deleteItem call is in
\* flight the flag that makes the handler drop its echo is set.
GuardCoverage ==
    \A c \in Clients : \A k \in InFlight(c) :
        calls[c][k].op \in {"add", "update", "toggle", "delete"} => isPerformingOperation[c]

\* the call a step has just started for client c
Started(c) == calls'[c][Len(calls'[c])]

\* the effect of a call on a list of items
Effect(call, its) ==
    CASE call.op = "add" -> Len(its) > 0 /\ its[Len(its)].text \in {call.text, sanitizeText(call.text)}
      [] call.op = "update" ->
            \A k \in 1..Len(its) : its[k].id = call.id => its[k].text \in {call.text, sanitizeText(call.text)}
      [] call.op = "toggle" -> \A k \in 1..Len(its) : its[k].id = call.id => its[k].isBought = call.flag
      [] call.op = "delete" -> call.id \notin Ids(its)
      [] call.op = "clear" -> boughtItems(its) = <<>>
      [] call.op = "reorder" -> [k \in 1..Len(its) |-> its[k].id] = call.order
      [] OTHER -> TRUE

\* a step that starts an operation of client c
Starts(c) == nOps' > nOps /\ Len(calls'[c]) > Len(calls[c])

\* a step that runs the continuation of call k of client c after a successful answer
Completes(c, k) ==
    /\ k \in 1..Len(calls[c])
    /\ calls[c][k].st = "ok"
    /\ calls'[c] = RemoveAt(calls[c], k)

GuardExpiry ==
    \A c \in Clients : isPerformingOperation[c] ~> ~isPerformingOperation[c]

\* what fetchItems shows for a completed call
Shown(load) == IF load.ok THEN [k \in 1..Len(load.data) |-> MapFetched(load.data[k])] ELSE <<>>

\* client c has just completed a load and no other load of c is in flight
LoadsDone(c) ==
    /\ last.a = "fetchItemsDone"
    /\ last.c = c
    /\ \A k \in 1..Len(calls[c]) : calls[c][k].op # "fetch"

\* C9 (as claimed): after overlapping loads have completed (successfully), items is the
\* result of the load that was started last.
LoadsCoalesceToLatest ==
    \A c \in Clients :
        LoadsDone(c) /\ (\A j \in 1..Len(loads[c]) : loads[c][j].ok) =>
            \E k \in 1..Len(loads[c]) :
                /\ \A j \in 1..Len(loads[c]) : loads[c][j].n <= loads[c][k].n
                /\ items[c] = Shown(loads[c][k])

\* C9 (amended): after overlapping loads have completed, items is the whole result of one
\* of them, the one whose answer was processed last (empty if that load failed).
LoadsLastAnswerWins ==
    \A c \in Clients :
        LoadsDone(c) => items[c] = Shown(loads[c][Len(loads[c])])

\* C9 witness: two loads of one client completed in the reverse of the order they were
\* started in, with different results
LoadsOutOfOrder ==
    \E c \in Clients :
        /\ LoadsDone(c)
        /\ Len(loads[c]) = 2
        /\ loads[c][1].n > loads[c][2].n
        /\ loads[c][1].ok /\ loads[c][2].ok
        /\ loads[c][1].data # loads[c][2].data

\* a client never has two open channels for one list, and the registry and the open
\* channels agree
OneChannelPerList ==
    \A c \in Clients :
        /\ \A o1, o2 \in opened[c] : o1.list = o2.list => o1 = o2
        /\ \A l \in Lists : channels[c][l] # NoChannel => [ch |-> channels[c][l], list |-> l] \in opened[c]
        /\ \A o \in opened[c] : channels[c][o.list] = o.ch

\* C10: the registry holds at most one channel per list id, and subscribeToListItems for
\* a list that already has a channel opens no channel and returns the registered one.
SingleSubscription ==
    /\ []OneChannelPerList
    /\ [][\A c \in Clients, l \in Lists :
            subscribeToListItems(c, l) /\ channels[c][l] # NoChannel =>
                /\ UNCHANGED registryVars
                /\ last'.id = channels[c][l]]_vars

\* C10 witness: subscribeToListItems was called for a list that already had a channel,
\* after an earlier unsubscribe and a new subscription
Resubscribed ==
    /\ last.a = "subscribeToListItems"
    /\ ~last.applied
    /\ nChannels[last.c] >= 2

\* the registry of client c holds a channel for the list the hook is bound to and for no
\* other, and no event of another list is on its way to the handler
BoundOnly(c) ==
    /\ \A l \in Lists : l # listId[c] => channels[c][l] = NoChannel
    /\ \A k \in 1..Len(feed[c]) : feed[c][k].item.list_id = listId[c]

\* C11: once the hook has left a list, the list has no channel in the registry, no event
\* of that list changes items, and events written while the list had no channel are not
\* kept for a later subscription.
Cancellation ==
    /\ []BoundOnly("A")
    /\ [][\A l \in Lists :
            /\ (last'.a = "Deliver" /\ last'.c = "A" /\ last'.ev.item.list_id = l /\ items'["A"] # items["A"])
                  => l = listId["A"] /\ channels["A"][l] # NoChannel
            /\ (channels["A"][l] = NoChannel /\ channels'["A"][l] = NoChannel)
                  => \A k \in 1..Len(feed'["A"]) : feed'["A"][k].item.list_id # l
            /\ (channels["A"][l] = NoChannel /\ channels'["A"][l] # NoChannel)
                  => \A k \in 1..Len(feed'["A"]) : feed'["A"][k].item.list_id # l]_vars

\* C11 witness: the hook is back on its first list after leaving it and an event written
\* after the return has been applied
CameBack ==
    /\ nChannels["A"] >= 3
    /\ listId["A"] = "L1"
    /\ last.a = "Deliver"
    /\ last.applied

\* C12: a DELETE event for an id that is not in items, delivered with the flag clear once
\* or twice, does not throw and leaves items as it was.
DeleteIdempotence ==
    [][(/\ last'.a \in {"Deliver", "DeliverThrew"}
        /\ last'.applied
        /\ last'.ev.type = "DELETE"
        /\ last'.ev.item # MissingRow
        /\ last'.id \notin Ids(items[last'.c]))
       => last'.a = "Deliver" /\ items' = items]_vars

\* C12 witness: the second copy of a DELETE event for an id that never was in items
DeletedTwice ==
    /\ last.a = "Deliver"
    /\ last.applied
    /\ last.ev.type = "DELETE"
    /\ last.ev.n = 2
    /\ last.id = 3
    /\ Ids(items[last.c]) = {1, 2}
    /\ nOps = 1

\* C13: the second of two copies of one INSERT or UPDATE event, delivered with the flag
\* clear right after the first, leaves items as the first left it.
DuplicateDelivery ==
    [][(/\ last'.a = "Deliver"
        /\ last'.applied
        /\ last'.ev.type \in {"INSERT", "UPDATE"}
        /\ last'.ev.n = 2)
       => items' = items]_vars

\* C13 witness: both copies of an INSERT for a new id were handled and the record is
\* in items once
InsertedTwice ==
    /\ last.a = "Deliver"
    /\ last.applied
    /\ last.ev.type = "INSERT"
    /\ last.ev.n = 2
    /\ last.id = 3
    /\ Cardinality({k \in 1..Len(items[last.c]) : items[last.c][k].id = 3}) = 1

\* an event without a row, or with a row without an id
Malformed(ev) == ev.item = MissingRow \/ ev.item.id = NoId

\* C20 (as claimed): the handler never throws, and a malformed event leaves items as
\* they were.
HandlerRobustness ==
    [][/\ last'.a # "DeliverThrew"
       /\ (last'.a = "Deliver" /\ Malformed(last'.ev)) => items' = items]_vars

\* the reorderItems calls of c whose updates have all been applied, not yet continued
ReorderedOk(c) == {k \in 1..Len(calls[c]) : calls[c][k].op = "reorder" /\ calls[c][k].st = "ok"}

\* C14: when all updates of a reorderItems call whose argument names every record once
\* have succeeded, the record at index i of the argument has position i, counted from 0,
\* and every listing getListItems can return shows the records of the argument in the
\* order of the argument.
ReorderCorrectness ==
    \A c \in Clients : \A k \in ReorderedOk(c) :
        LET order == calls[c][k].order IN
        Cardinality(Range(order)) = Len(order) =>
            /\ \A i \in 1..Len(order) : rows[order[i]].order_index = i - 1
            /\ \A p \in Listings(calls[c][k].list) :
                  SelectSeq(p, LAMBDA id : id \in Range(order)) = order

\* C14 witness: three records dragged into the order c, a, b and all updates applied
DraggedThree ==
    \E k \in ReorderedOk("A") : calls["A"][k].order = <<3, 1, 2>>

\* a step that runs the continuation of a failed reorderItems call of client c
ReorderFailed(c) ==
    \E k \in 1..Len(calls[c]) :
        /\ calls[c][k].op = "reorder"
        /\ calls[c][k].st = "err"
        /\ Len(calls'[c]) = Len(calls[c])
        /\ calls'[c][Len(calls'[c])].op = "fetch"
        /\ calls'[c][Len(calls'[c])].n = calls[c][k].n

\* after a failed reorderItems call the error is set
ReorderErrorRecorded == [][\A c \in Clients : ReorderFailed(c) => error'[c]]_vars

\* when the load started by a failed reorderItems call has completed, items is a listing
\* of the list's rows
ReorderResync ==
    \A c \in Clients :
        (LoadsDone(c) /\ last.applied) =>
            \E p \in Listings(listId[c]) : items[c] = [k \in 1..Len(p) |-> MapFetched(rows[p[k]])]

\* C15 (as claimed): a failed reorderItems call records the error and starts a load, and
\* when the load has completed items is the server's listing.
ReorderFailureRecovery == ReorderErrorRecorded /\ []ReorderResync

\* a step that runs the continuation of a failed call op of client c
FailedStep(c, op) ==
    \E k \in 1..Len(calls[c]) :
        /\ calls[c][k].op = op
        /\ calls[c][k].st = "err"
        /\ calls'[c] = RemoveAt(calls[c], k)

\* the failed calls op of client c whose continuation has not yet run
FailedCalls(c, op) == {k \in 1..Len(calls[c]) : calls[c][k].op = op /\ calls[c][k].st = "err"}

\* C16: deleteItem does not touch items when it sends its request, and when the request
\* has failed its continuation leaves items as they are (the record keeps its fields and
\* its place), sets the error and clears the flag.
RemoveRollback ==
    [][\A c \in Clients :
          /\ (Starts(c) /\ Started(c).op = "delete") => items'[c] = items[c]
          /\ FailedStep(c, "delete") =>
                /\ items'[c] = items[c]
                /\ error'[c]
                /\ ~isPerformingOperation'[c]]_vars

\* C16 witness: a deleteItem call has failed at the store and its record is shown
DeleteFailedShown ==
    \E c \in Clients : \E k \in FailedCalls(c, "delete") :
        calls[c][k].id \in Ids(items[c]) /\ isPerformingOperation[c] /\ ~error[c]

\* C17: addItem does not touch items when it sends its request, and when the create
\* request has failed its continuation leaves items as they are, sets the error and
\* clears the flag.
AddFailure ==
    [][\A c \in Clients :
          /\ (Starts(c) /\ Started(c).op = "add") => items'[c] = items[c]
          /\ FailedStep(c, "add") =>
                /\ items'[c] = items[c]
                /\ error'[c]
                /\ ~isPerformingOperation'[c]]_vars

\* C17 witness: the create request of an addItem call has failed, the flag still set
AddFailedPending ==
    \E c \in Clients : \E k \in FailedCalls(c, "add") : isPerformingOperation[c] /\ ~error[c]

\* the getListItems requests of client c that are in flight
FetchCalls(cs) == {k \in 1..Len(cs) : cs[k].op = "fetch"}

\* a step that runs the continuation of a failed clearBoughtItems call of client c
ClearFailed(c) ==
    \E k \in FailedCalls(c, "clear") :
        \A j \in 1..Len(calls'[c]) : ~(calls'[c][j].op = "clear" /\ calls'[c][j].n = calls[c][k].n)

Rejected(t) == Len(t) = 0 \/ (\A k \in 1..Len(t) : t[k] \in Whitespace) \/ Len(t) > MaxTextLen

\* the addItem calls of c with such a text
RejectedCalls(c) == {k \in 1..Len(calls[c]) : calls[c][k].op = "add" /\ Rejected(calls[c][k].text)}

\* C19: an addItem call with an empty, whitespace-only or too long text never succeeds;
\* the step that answers it writes no row and publishes no event, and the continuation
\* leaves items as they are and sets the error.
ValidationBeforeStore ==
    /\ [](\A c \in Clients : \A k \in RejectedCalls(c) :
              calls[c][k].st # "ok" /\ calls[c][k].res = NoRow)
    /\ [][\A c \in Clients :
            /\ \A k \in RejectedCalls(c) :
                  (calls[c][k].st = "sent" /\ Len(calls'[c]) = Len(calls[c]) /\ calls'[c][k].st # "sent")
                      => rows' = rows /\ feed' = feed /\ calls'[c][k].st = "err"
            /\ (\E k \in RejectedCalls(c) : calls'[c] = RemoveAt(calls[c], k))
                  => items'[c] = items[c] /\ error'[c]]_vars

\* C19 witness: addItem was called with a text of 501 characters and was refused, the
\* table as it was
TooLongRefused ==
    \E k \in RejectedCalls("A") :
        /\ Len(calls["A"][k].text) > MaxTextLen
        /\ calls["A"][k].st = "err"
        /\ Len(rows) = 2
\* a step in which a notifyListMembers call of client c settles or passes an await
NotifyStep(c) ==
    \E i \in 1..Len(calls[c]) :
        /\ calls[c][i].op = "notify"
        /\ \A j \in 1..Len(calls'[c]) : calls'[c][j] # calls[c][i]

NotifyOnlyOnSuccess ==
    (last.a = "notifyListMembers" /\ last.applied) =>
        /\ last.id # NoId
        /\ last.id \in 1..Len(rows)

\* C22: the bought view lists the records by updatedAt, the most recently updated first
\* (the second half of the claim; the hook reads no importance flag, so in the first half
\* every record is of the non-important group).
ViewOrdering ==
    \A c \in Clients :
        LET bought == boughtItems(items[c]) IN
        \A i, j \in 1..Len(bought) : i < j => bought[i].updatedAt >= bought[j].updatedAt

\* the number of entries of the sequence its that equal the record x
Count(its, x) == Cardinality({k \in 1..Len(its) : its[k] = x})

\* C23: the two views share no record, every entry of items is an entry of exactly one of
\* them (as often as it occurs in items), the not-bought view holds only records with
\* isBought false and the bought view only records with isBought true.
ViewPartition ==
    \A c \in Clients :
        LET unbought == unboughtItems(items[c])
            bought == boughtItems(items[c])
        IN  /\ Range(unbought) \cap Range(bought) = {}
            /\ Range(unbought) \cup Range(bought) = Range(items[c])
            /\ \A x \in Range(items[c]) :
                  Count(unbought, x) + Count(bought, x) = Count(items[c], x)
            /\ \A k \in 1..Len(unbought) : ~unbought[k].isBought
            /\ \A k \in 1..Len(bought) : bought[k].isBought

\* C23 witness: after a toggle was processed both views hold a record
BothViewsFilled ==
    \E c \in Clients :
        /\ unboughtItems(items[c]) # <<>>
        /\ \E k \in 1..Len(boughtItems(items[c])) : boughtItems(items[c])[k].updatedAt > 0

\* the item shows the row as the table holds it (its provenance aside)
Shows(it, r) ==
    /\ it.id = r.id
    /\ it.text = r.text
    /\ it.isBought = r.is_bought
    /\ it.orderIndex = r.order_index
    /\ it.updatedAt = r.updated_at

\* C24: once every event has been delivered, in whatever order, each record in items is
\* in the state of the last committed write to it, never in an older one.
OutOfOrderDelivery ==
    \A c \in Clients :
        (feed[c] = <<>> /\ calls[c] = <<>>) =>
            \A k \in 1..Len(items[c]) :
                items[c][k].id \in 1..Len(rows) => Shows(items[c][k], rows[items[c][k].id])

\* a step in which the store creates the row of the add call i of client c
Creates(c, i) ==
    /\ Sent(c, i)
    /\ calls[c][i].op = "add"
    /\ Len(rows') = Len(rows) + 1

\* C25: the position an add call carries places its row after every row of the list that
\* is not deleted when the store creates it, so that a listing returns the new row last.
AppendAtEnd ==
    [][\A c \in Clients : \A i \in 1..Len(calls[c]) :
          Creates(c, i) =>
              \A k \in Visible(calls[c][i].list) : rows[k].order_index < calls[c][i].idx]_vars

\* C26: the optimistic step of reorderItems leaves the set of record ids in items as it
\* was, whichever of the orders the list screen can pass it is called with.
ReorderKeepsRecords ==
    [][\A c \in Clients :
          (Starts(c) /\ Started(c).op = "reorder") => Ids(items'[c]) = Ids(items[c])]_vars

\* a step in which client c processes the successful answer of a toggleItem or updateItem
\* call, or its handler is handed a remote UPDATE
Updates(c) ==
    \/ \E k \in 1..Len(calls[c]) : calls[c][k].op \in {"toggle", "update"} /\ Completes(c, k)
    \/ /\ feed[c] # <<>>
       /\ feed'[c] = Tail(feed[c])
       /\ Head(feed[c]).type = "UPDATE"

\* C27: a processed toggleItem or updateItem answer and a remote UPDATE leave the id, the
\* listId and the createdBy of every record in items as they were.
ProvenanceKept ==
    [][\A c \in Clients :
          Updates(c) =>
              \A i \in 1..Len(items[c]) : \A j \in 1..Len(items'[c]) :
                  items'[c][j].id = items[c][i].id =>
                      /\ items'[c][j].listId = items[c][i].listId
                      /\ items'[c][j].createdBy = items[c][i].createdBy]_vars

\* C28: whenever no load of the hook is in flight, every record in items belongs to the
\* list the hook is bound to.
BoundToOneList ==
    \A c \in Clients :
        FetchCalls(calls[c]) = {} =>
            \A k \in 1..Len(items[c]) : items[c][k].listId = listId[c]

\* C29: when the successful answer of clearBoughtItems is processed, the records that
\* leave items are exactly the records of items the batch has tombstoned; a record that
\* became bought in items after the batch was executed stays.
ClearRemovesWhatServerRemoved ==
    [][\A c \in Clients : \A k \in 1..Len(calls[c]) :
          (calls[c][k].op = "clear" /\ Completes(c, k)) =>
              Ids(items[c]) \ Ids(items'[c]) = Ids(items[c]) \cap Ids(calls[c][k].resList)]_vars

====
